---------------------------- MODULE Spec2Model ----------------------------
(***************************************************************************)
(* Model of the AI proxy (ShimonMimoun/proxy): the assumed-role credential *)
(* cache of src/proxy/routers/bedrock.py and the request handlers and      *)
(* stream generators of src/proxy/routers/azure.py and bedrock.py.         *)
(*                                                                         *)
(* The handlers are asyncio coroutines: code between two await/yield       *)
(* points runs atomically, so one action is one such stretch of code.      *)
(* Time is time.time() in whole seconds.                                   *)
(*                                                                         *)
(* SpecCred: concurrent callers of get_credentials() and the clock.        *)
(* SpecPump: one client request, from its handler through its stream       *)
(*           generator to the end of the response.                         *)
(* Spec:     both together.                                                *)
(***************************************************************************)
EXTENDS Integers, Sequences, FiniteSets, TLC

\* ------------------------------------------------------------------ bounds
\* Number of concurrent tasks calling get_credentials().
NumTasks == 2
\* The clock is advanced at most MaxTicks times, by one of TickSteps each time.
MaxTicks == 3
\* At most MaxSts role-assumption calls are issued in one behaviour.
MaxSts == 3
\* An upstream stream delivers at most MaxEvents events.
MaxEvents == 3

\* ------------------------------------------------------- program constants
\* DurationSeconds=3600 of the assume_role call.
DurationSeconds == 3600
\* "Expire 5 minutes before actual expiration".
SafetyMargin == 300

VARIABLES
    ROLE_ARN,      \* whether os.getenv("AWS_ROLE_ARN") is set (truthy)
    now,           \* time.time()
    ticks,         \* how many times the clock has been advanced
    creds_cache,   \* _creds_cache: [data, expiry]
    sts_calls,     \* number of sts.assume_role calls issued so far
    task_pc,       \* per task: "idle", "sts" (awaiting assume_role), "done"
    task_now,      \* per task: the local `now` of the call in progress, or of the
                   \* latest call that returned without a refresh; 0 after a refresh
    task_ret,      \* per task: value returned by its latest completed call
    task_via,      \* per task: how that call ended
    \* --- one client request, from the handler to the end of its response
    rpc,           \* where the handler or the stream generator stands
    route,         \* "azure", "runtime" (bedrock_runtime) or "agent"
    operation,     \* bedrock_runtime: the {operation} path parameter
    method_name,   \* bedrock_runtime: operation_to_method(operation)
    is_stream,     \* bedrock_runtime: line 73
    body,          \* the request body, as passed to the SDK
    kwargs,        \* bedrock_runtime: the credentials put in kwargs, or None
    method,        \* getattr(client, method_name, None); "unset" before it
    resp,          \* the response the client receives: kind and status
    upstream,      \* the upstream SDK call: "none", "pending", "ok", "failed"
    client_open,   \* whether the generator's bedrock-runtime client is open
    seen,          \* the events the upstream iterator has delivered
    iter_error,    \* the exception the upstream iterator raised, or None
    out,           \* the chunks yielded to the client
    event,         \* the loop variable (event / chunk_dict); None: unbound
    input_tokens,  \* bedrock_stream_generator
    output_tokens, \* bedrock_stream_generator
    output_text,   \* both generators
    log            \* the logger.info / logger.error records of the stream

credVars == <<ROLE_ARN, now, ticks, creds_cache, sts_calls,
              task_pc, task_now, task_ret, task_via>>

handlerVars == <<rpc, route, operation, method_name, is_stream, body, kwargs, method,
                 resp, upstream>>
genVars == <<client_open, seen, iter_error, out, event,
             input_tokens, output_tokens, output_text, log>>
pumpVars == <<handlerVars, genVars>>

vars == <<credVars, pumpVars>>

Tasks == 1..NumTasks

\* Python's None.
None == [none |-> TRUE]

\* resp["Credentials"] of an assume_role call of task k answered at time t:
\* a fresh key triple and an absolute expiration timestamp.  A task has one
\* call in flight at a time and an entry just stored is valid, so the pair
\* (k, Expiration) names the call that returned it.
Credentials(k, t) == [AccessKeyId |-> k, Expiration |-> t + DurationSeconds]

\* ------------------------------------------------------ credential cache
\* (variant: `>=` for `>`)
CacheValid_AtExpiry(cache, t) == cache.data # None /\ cache.expiry >= t

\* bedrock.py:45  `_creds_cache["data"] and _creds_cache["expiry"] > now`
CacheValid(cache, t) == cache.data # None /\ cache.expiry > t

\* (variant: the margin is not subtracted)
NewExpiry_NoMargin(creds) == creds.Expiration

\* bedrock.py:57  `creds["Expiration"].timestamp() - 300`
NewExpiry(creds) == creds.Expiration - SafetyMargin

\* (variant: the data is stored, the expiry is left as it was)
StoreCreds_DataOnly(cache, creds) == [data |-> creds, expiry |-> cache.expiry]

\* bedrock.py:55-57  the two stores of a successful refresh
StoreCreds(cache, creds) == [data |-> creds, expiry |-> NewExpiry(creds)]

\* (variant: the role check is missing)
Decide_NoRoleCheck(role, cache, t) ==
    IF cache.data # None /\ cache.expiry > t THEN "cache" ELSE "sts"

\* bedrock.py:41-48  the path get_credentials() takes up to its first await
Decide(role, cache, t) ==
    IF ~role THEN "norole"
    ELSE IF CacheValid(cache, t) THEN "cache"
    ELSE "sts"

\* get_credentials(), lines 37-48: from the call to the return of None, to
\* the return of the cached entry, or to the await of sts.assume_role.
get_credentials(t) ==
    /\ task_pc[t] # "sts"
    /\ LET d == Decide(ROLE_ARN, creds_cache, now) IN
       CASE d = "norole" ->
              /\ task_pc' = [task_pc EXCEPT ![t] = "done"]
              /\ task_ret' = [task_ret EXCEPT ![t] = None]
              /\ task_via' = [task_via EXCEPT ![t] = "norole"]
              /\ UNCHANGED <<task_now, sts_calls>>
         [] d = "cache" ->
              /\ task_pc' = [task_pc EXCEPT ![t] = "done"]
              /\ task_now' = [task_now EXCEPT ![t] = now]
              /\ task_ret' = [task_ret EXCEPT ![t] = creds_cache.data]
              /\ task_via' = [task_via EXCEPT ![t] = "cache"]
              /\ UNCHANGED sts_calls
         [] d = "sts" ->
              /\ sts_calls < MaxSts
              /\ sts_calls' = sts_calls + 1
              /\ task_pc' = [task_pc EXCEPT ![t] = "sts"]
              /\ task_now' = [task_now EXCEPT ![t] = now]
              /\ UNCHANGED <<task_ret, task_via>>
    /\ UNCHANGED <<ROLE_ARN, now, ticks, creds_cache>>
    /\ UNCHANGED pumpVars

\* get_credentials(), lines 49-58: assume_role answers; the cache is written
\* and the new credentials are returned.
assume_role_ok(t) ==
    /\ task_pc[t] = "sts"
    /\ LET creds == Credentials(t, now) IN
       /\ creds_cache' = StoreCreds(creds_cache, creds)
       /\ task_ret' = [task_ret EXCEPT ![t] = creds]
    /\ task_pc' = [task_pc EXCEPT ![t] = "done"]
    /\ task_via' = [task_via EXCEPT ![t] = "refresh"]
    /\ task_now' = [task_now EXCEPT ![t] = 0]
    /\ UNCHANGED <<ROLE_ARN, now, ticks, sts_calls>>
    /\ UNCHANGED pumpVars

\* (variant: a failed refresh drops the cached entry)
assume_role_fail_DropsEntry(t) ==
    /\ task_pc[t] = "sts"
    /\ task_pc' = [task_pc EXCEPT ![t] = "done"]
    /\ task_ret' = [task_ret EXCEPT ![t] = None]
    /\ task_via' = [task_via EXCEPT ![t] = "error"]
    /\ creds_cache' = [data |-> None, expiry |-> 0]
    /\ UNCHANGED <<ROLE_ARN, now, ticks, sts_calls, task_now>>
    /\ UNCHANGED pumpVars

\* get_credentials(), lines 48-53: assume_role (or the sts client) raises;
\* nothing catches it, so the call ends with the exception.
assume_role_fail(t) ==
    /\ task_pc[t] = "sts"
    /\ task_pc' = [task_pc EXCEPT ![t] = "done"]
    /\ task_ret' = [task_ret EXCEPT ![t] = None]
    /\ task_via' = [task_via EXCEPT ![t] = "error"]
    /\ UNCHANGED <<ROLE_ARN, now, ticks, creds_cache, sts_calls, task_now>>
    /\ UNCHANGED pumpVars

\* The wall clock moves on: by 100 s, or by 3200 s, which takes an entry
\* issued for DurationSeconds to 100 s before its safety margin begins.
TickSteps == {100, DurationSeconds - SafetyMargin - 100}

Tick ==
    /\ ticks < MaxTicks
    /\ ticks' = ticks + 1
    /\ \E d \in TickSteps : now' = now + d
    /\ UNCHANGED <<ROLE_ARN, creds_cache, sts_calls,
                   task_pc, task_now, task_ret, task_via>>
    /\ UNCHANGED pumpVars

\* ================================================== request handlers, data
\* Python values are tagged records: a dict carries its items (a function
\* from keys to values), a str its characters, bytes whether they are valid
\* UTF-8 and the text they hold.
Dict(items) == [t |-> "dict", items |-> items]
Str(chars) == [t |-> "str", s |-> chars]
Num(n) == [t |-> "int", n |-> n]
\* str(e) of an exception
Msg(m) == [t |-> "msg", m |-> m]

\* `k in d`
Has(d, k) == k \in DOMAIN d.items
\* `d.get(k, default)`
Get(d, k, default) == IF Has(d, k) THEN d.items[k] ELSE default
\* the dict {}
EmptyDict == Dict([k \in {} |-> None])
\* True / False
Bool(b) == [t |-> "bool", b |-> b]
\* `d[k] = v`
Put(d, k, v) ==
    Dict([x \in DOMAIN d.items \cup {k} |-> IF x = k THEN v ELSE d.items[x]])
\* isinstance(v, dict)
IsDict(v) == v # None /\ v.t = "dict"
\* The truth value of v in `if v:` / `not v`
Truthy(v) ==
    /\ v # None
    /\ v.t = "bool" => v.b
    /\ v.t = "int" => v.n # 0
    /\ v.t = "str" => v.s # <<>>
    /\ v.t = "dict" => DOMAIN v.items # {}

\* A text that is no JSON document.
Garbage == [t |-> "garbage"]
\* bytes holding the UTF-8 text `text` (a JSON document, given by its parsed
\* value, or Garbage), or bytes that are not valid UTF-8.
Utf8Bytes(text) == [t |-> "bytes", utf8 |-> TRUE, text |-> text]
BadBytes == [t |-> "bytes", utf8 |-> FALSE, text |-> Garbage]

\* ---------------------------------------------------- operation names
OpInvokeModel == <<"I", "n", "v", "o", "k", "e", "M", "o", "d", "e", "l">>
OpInvokeModelWithResponseStream ==
    <<"I", "n", "v", "o", "k", "e", "M", "o", "d", "e", "l", "W", "i", "t", "h",
      "R", "e", "s", "p", "o", "n", "s", "e", "S", "t", "r", "e", "a", "m">>
OpConverse == <<"C", "o", "n", "v", "e", "r", "s", "e">>
OpConverseStream ==
    <<"C", "o", "n", "v", "e", "r", "s", "e", "S", "t", "r", "e", "a", "m">>
OpKebabConverseStream ==
    <<"c", "o", "n", "v", "e", "r", "s", "e", "-", "s", "t", "r", "e", "a", "m">>
OpUnknown == <<"F", "o", "o", "B", "a", "r">>

OpRetrieve ==
    <<"R", "e", "t", "r", "i", "e", "v", "e">>
OpRetrieveAndGenerate ==
    <<"R", "e", "t", "r", "i", "e", "v", "e", "A", "n", "d", "G", "e", "n",
      "e", "r", "a", "t", "e">>
OpLowerCamel ==
    <<"i", "n", "v", "o", "k", "e", "M", "o", "d", "e", "l">>
OpHyphenUpper ==
    <<"C", "o", "n", "v", "e", "r", "s", "e", "-", "S", "t", "r", "e", "a",
      "m">>

\* The {operation} path parameters a client sends.
Operations ==
    {OpInvokeModel, OpInvokeModelWithResponseStream, OpConverse,
     OpConverseStream, OpKebabConverseStream, OpLowerCamel, OpHyphenUpper,
     OpUnknown}

\* The {operation} path parameters sent to /agent-runtime.
AgentOperations == {OpRetrieve, OpRetrieveAndGenerate, OpInvokeModel, OpUnknown}

invoke_model == <<"i", "n", "v", "o", "k", "e", "_", "m", "o", "d", "e", "l">>
invoke_model_with_response_stream ==
    <<"i", "n", "v", "o", "k", "e", "_", "m", "o", "d", "e", "l", "_", "w", "i",
      "t", "h", "_", "r", "e", "s", "p", "o", "n", "s", "e", "_", "s", "t", "r",
      "e", "a", "m">>
converse == <<"c", "o", "n", "v", "e", "r", "s", "e">>
converse_stream ==
    <<"c", "o", "n", "v", "e", "r", "s", "e", "_", "s", "t", "r", "e", "a", "m">>

retrieve ==
    <<"r", "e", "t", "r", "i", "e", "v", "e">>
retrieve_and_generate ==
    <<"r", "e", "t", "r", "i", "e", "v", "e", "_", "a", "n", "d", "_", "g",
      "e", "n", "e", "r", "a", "t", "e">>

\* The operations the bedrock-agent-runtime client has a method for.
AgentMethods == {retrieve, retrieve_and_generate}

\* The operations the bedrock-runtime client has a method for.
RuntimeMethods ==
    {invoke_model, invoke_model_with_response_stream, converse, converse_stream}

\* str.lower() on the letters A-Z
LowerOf ==
    [A |-> "a", B |-> "b", C |-> "c", D |-> "d", E |-> "e", F |-> "f",
     G |-> "g", H |-> "h", I |-> "i", J |-> "j", K |-> "k", L |-> "l",
     M |-> "m", N |-> "n", O |-> "o", P |-> "p", Q |-> "q", R |-> "r",
     S |-> "s", T |-> "t", U |-> "u", V |-> "v", W |-> "w", X |-> "x",
     Y |-> "y", Z |-> "z"]
IsUpper(c) == c \in DOMAIN LowerOf
Lower(c) == IF IsUpper(c) THEN LowerOf[c] ELSE c

\* re.sub(r'(?<!^)(?=[A-Z])', '_', op): "_" before every A-Z but the first
\* character.
RECURSIVE InsertUnderscores(_, _)
InsertUnderscores(op, i) ==
    IF i > Len(op) THEN <<>>
    ELSE (IF i > 1 /\ IsUpper(op[i]) THEN <<"_", op[i]>> ELSE <<op[i]>>)
         \o InsertUnderscores(op, i + 1)

\* (variant: "-" is not replaced)
operation_to_method_NoHyphen(op) ==
    [i \in 1..Len(InsertUnderscores(op, 1)) |-> Lower(InsertUnderscores(op, 1)[i])]

\* bedrock.py:175-185
operation_to_method(op) ==
    LET snake == [i \in 1..Len(InsertUnderscores(op, 1)) |->
                     Lower(InsertUnderscores(op, 1)[i])]
    IN  [i \in 1..Len(snake) |-> IF snake[i] = "-" THEN "_" ELSE snake[i]]

\* The method sets of the installed SDK: a current one, and one that
\* predates the Converse operations.
SdkVersions == {RuntimeMethods, RuntimeMethods \ {converse, converse_stream}}

\* `getattr(client, name, None)` on a client with the methods `methods`
Unset == [t |-> "unset"]
BoundMethod(name) == [t |-> "method", name |-> name]
GetAttr(methods, name) == IF name \in methods THEN BoundMethod(name) ELSE None

\* The JSON bodies a client posts to /runtime and /agent-runtime.
BedrockBodies ==
    {Dict([modelId |-> Str(<<"m">>)]),
     Dict([modelId |-> Str(<<"m">>), stream |-> Bool(TRUE)])}

\* bedrock.py:73
IsStreamMethod(m) == m \in {invoke_model_with_response_stream, converse_stream}

\* ------------------------------------------------------ Bedrock events
\* ConverseStream: metadata with usage, metadata without, text deltas, a
\* delta without text, messageStop.
EvUsage(i, o) ==
    Dict([metadata |-> Dict([usage |->
        Dict([inputTokens |-> Num(i), outputTokens |-> Num(o)])])])
EvMetaNoUsage == Dict([metadata |-> Dict([metrics |-> Dict([latencyMs |-> Num(7)])])])
EvDelta(chars) ==
    Dict([contentBlockDelta |-> Dict([delta |-> Dict([text |-> Str(chars)])])])
EvDeltaNoText ==
    Dict([contentBlockDelta |-> Dict([delta |-> Dict([toolUse |-> Str(<<"{">>)])])])
EvStop == Dict([messageStop |-> Dict([stopReason |-> Str(<<"e", "n", "d">>)])])

ConverseEvents ==
    {EvUsage(2, 1), EvUsage(1, 0), EvMetaNoUsage,
     EvDelta(<<"a">>), EvDelta(<<"b">>), EvDeltaNoText, EvStop}

\* InvokeModelWithResponseStream: {"chunk": {"bytes": ...}} holding a JSON
\* document of one of the model families, a text that is no JSON, or bytes
\* that are no UTF-8.
EvChunk(b) == Dict([chunk |-> Dict([bytes |-> b])])

ChunkDocs ==
    {Dict([outputText |-> Str(<<"x">>)]),
     Dict([completion |-> Str(<<"y">>)]),
     Dict([delta |-> Dict([text |-> Str(<<"z">>)])]),
     Dict([outputText |-> Str(<<"x">>), completion |-> Str(<<"y">>)])}

\* An event with both a chunk (of a document without text) and a
\* contentBlockDelta.
EvChunkAndDelta ==
    Dict([chunk |-> Dict([bytes |-> Utf8Bytes(Dict([type |-> Str(<<"t">>)]))]),
          contentBlockDelta |-> Dict([delta |-> Dict([text |-> Str(<<"q">>)])])])

InvokeEvents ==
    {EvChunk(Utf8Bytes(d)) : d \in ChunkDocs}
        \cup {EvChunk(Utf8Bytes(Garbage)), EvChunk(BadBytes), EvChunkAndDelta}

\* bedrock.py:205: the events the stream of a method carries
StreamEvents(m) ==
    IF m = invoke_model_with_response_stream THEN InvokeEvents ELSE ConverseEvents

\* bedrock.py:249-259, `v.decode('utf-8')`: raises on bytes that are no UTF-8
Decode(b) == Str(b.text)

\* Whether serialize_event(ev) returns (no bytes in it fail to decode).
RECURSIVE CanSerialize(_)
CanSerialize(ev) ==
    \A k \in DOMAIN ev.items :
        LET v == ev.items[k] IN
        /\ v.t = "bytes" => v.utf8
        /\ v.t = "dict" => CanSerialize(v)

\* bedrock.py:249-259
RECURSIVE serialize_event(_)
serialize_event(ev) ==
    Dict([k \in DOMAIN ev.items |->
        LET v == ev.items[k] IN
        IF v.t = "bytes" THEN Decode(v)
        ELSE IF v.t = "dict" THEN serialize_event(v)
        ELSE v])

\* json.loads(b): the parsed document; raises on Garbage and on bad bytes.
CanLoad(b) == b.utf8 /\ b.text # Garbage
Loads(b) == b.text

\* (variant: the larger of the old and the new count is kept)
UsageAfter_Max(ev, tokens) ==
    IF Has(ev, "metadata") THEN
        LET usage == Get(ev.items["metadata"], "usage", EmptyDict)
            i == Get(usage, "inputTokens", Num(0)).n
            o == Get(usage, "outputTokens", Num(0)).n
        IN [input |-> IF i > tokens.input THEN i ELSE tokens.input,
            output |-> IF o > tokens.output THEN o ELSE tokens.output]
    ELSE tokens

\* bedrock.py:214-217: the token counts after an event.  Lines 215-217 are
\* the body of the `if "metadata" in event:` of line 214 (they stand at its
\* own indentation in the file): a metadata event without "usage" sets both
\* counts to the defaults 0.
UsageAfter(ev, tokens) ==
    IF Has(ev, "metadata") THEN
        LET usage == Get(ev.items["metadata"], "usage", EmptyDict) IN
        [input |-> Get(usage, "inputTokens", Num(0)).n,
         output |-> Get(usage, "outputTokens", Num(0)).n]
    ELSE tokens

\* bedrock.py:230-232: the text a chunk document adds
ChunkText(data) ==
    IF Has(data, "outputText") THEN data.items["outputText"].s
    ELSE IF Has(data, "completion") THEN data.items["completion"].s
    ELSE IF Has(data, "delta") /\ Has(data.items["delta"], "text")
         THEN data.items["delta"].items["text"].s
    ELSE <<>>

\* bedrock.py:224-238: output_text after the text of event ev is accumulated.
\* The block stands at the indentation of the `async for` of line 207, so it
\* runs once, after the loop, on the last event.
TextAfter(ev, text) ==
    IF Has(ev, "chunk") THEN
        LET chunk == ev.items["chunk"] IN
        IF Has(chunk, "bytes") /\ CanLoad(chunk.items["bytes"])
        THEN text \o ChunkText(Loads(chunk.items["bytes"]))
        ELSE text
    ELSE IF Has(ev, "contentBlockDelta") THEN
        LET delta == Get(ev.items["contentBlockDelta"], "delta", EmptyDict) IN
        IF Has(delta, "text") THEN text \o delta.items["text"].s ELSE text
    ELSE text

\* One JSON line of the Bedrock stream: json.dumps(x) + "\n"
JsonLine(x) == [kind |-> "jsonline", json |-> x]
\* bedrock.py:201, 242: {"error": <message>}
ErrorLine(m) == JsonLine(Dict([error |-> Msg(m)]))
IsErrorChunk(c) == c.kind = "jsonline" /\ Has(c.json, "error")

\* ---------------------------------------------------- Azure chunks
\* chunk.model_dump() of a ChatCompletionChunk: `usage` (None or a dict with
\* total_tokens) and `choices`, each with a delta whose content is a str or
\* None.
Choice(content) == Dict([delta |-> Dict([content |-> content])])
AzChunk(usage, choices) == Dict([usage |-> usage, choices |-> choices])

AzureChunks ==
    {AzChunk(None, <<Choice(Str(<<"H">>))>>),
     AzChunk(None, <<Choice(Str(<<"i">>)), Choice(Str(<<"!">>))>>),
     AzChunk(None, <<Choice(None)>>),
     AzChunk(Dict([total_tokens |-> Num(42)]), <<>>)}

\* azure.py:128  f"data: {json.dumps(chunk_dict)}\n\n"
SseData(x) == [kind |-> "sse", data |-> x]
\* azure.py:144  "data: [DONE]\n\n"
SseDone == [kind |-> "sse", data |-> [t |-> "literal", s |-> "[DONE]"]]

\* azure.py:137-142: output_text after the choices of a chunk, in order
RECURSIVE ChoicesText(_, _)
ChoicesText(choices, i) ==
    IF i > Len(choices) THEN <<>>
    ELSE LET delta == Get(choices[i], "delta", EmptyDict)
             content == Get(delta, "content", Str(<<>>))
         IN (IF content # None /\ content.s # <<>> THEN content.s ELSE <<>>)
            \o ChoicesText(choices, i + 1)

\* ---------------------------------------------------- Azure requests
\* The {path:path} of a request, as its characters.
PathChat ==
    <<"o", "p", "e", "n", "a", "i", "/", "d", "e", "p", "l", "o", "y", "m",
      "e", "n", "t", "s", "/", "g", "p", "t", "4", "/", "c", "h", "a", "t",
      "/", "c", "o", "m", "p", "l", "e", "t", "i", "o", "n", "s">>
PathPrefixed ==
    <<"v", "1", "/", "m", "y", "d", "e", "p", "l", "o", "y", "m", "e", "n",
      "t", "s", "/", "d", "/", "c", "h", "a", "t", "/", "c", "o", "m", "p",
      "l", "e", "t", "i", "o", "n", "s", "/", "x">>
PathEmptyId ==
    <<"o", "p", "e", "n", "a", "i", "/", "d", "e", "p", "l", "o", "y", "m",
      "e", "n", "t", "s", "/", "/", "c", "h", "a", "t", "/", "c", "o", "m",
      "p", "l", "e", "t", "i", "o", "n", "s">>
PathNoChat ==
    <<"o", "p", "e", "n", "a", "i", "/", "d", "e", "p", "l", "o", "y", "m",
      "e", "n", "t", "s", "/", "g", "p", "t", "4", "/", "c", "o", "m", "p",
      "l", "e", "t", "i", "o", "n", "s">>
PathTwoSegments ==
    <<"o", "p", "e", "n", "a", "i", "/", "d", "e", "p", "l", "o", "y", "m",
      "e", "n", "t", "s", "/", "a", "/", "b", "/", "c", "h", "a", "t", "/",
      "c", "o", "m", "p", "l", "e", "t", "i", "o", "n", "s">>
PathModels ==
    <<"o", "p", "e", "n", "a", "i", "/", "m", "o", "d", "e", "l", "s">>

AzurePaths ==
    {PathChat, PathPrefixed, PathEmptyId, PathNoChat, PathTwoSegments, PathModels}

LitDeployments ==
    <<"d", "e", "p", "l", "o", "y", "m", "e", "n", "t", "s", "/">>
LitChatCompletions ==
    <<"/", "c", "h", "a", "t", "/", "c", "o", "m", "p", "l", "e", "t", "i",
      "o", "n", "s">>

\* Whether s holds the literal lit at position i.
HasAt(s, i, lit) ==
    /\ i + Len(lit) - 1 <= Len(s)
    /\ SubSeq(s, i, i + Len(lit) - 1) = lit

\* azure.py:23, `([^/]+)`: where the run of non-"/" characters that begins
\* at position start ends (the position of the next "/", or past the end).
GroupEnd(path, start) ==
    CHOOSE j \in start..(Len(path) + 1) :
        /\ j = Len(path) + 1 \/ path[j] = "/"
        /\ \A k \in start..(j - 1) : path[k] # "/"

\* azure.py:23: whether r"deployments/([^/]+)/chat/completions" matches at
\* position i.
MatchAt(path, i) ==
    /\ HasAt(path, i, LitDeployments)
    /\ GroupEnd(path, i + Len(LitDeployments)) > i + Len(LitDeployments)
    /\ HasAt(path, GroupEnd(path, i + Len(LitDeployments)), LitChatCompletions)

\* azure.py:23-24: re.search(...) found a match
PathMatches(path) == \E i \in 1..Len(path) : MatchAt(path, i)

\* azure.py:29: match.group(1) of the leftmost match
deployment_id(path) ==
    LET i == CHOOSE i \in 1..Len(path) :
                 MatchAt(path, i) /\ \A i2 \in 1..(i - 1) : ~MatchAt(path, i2)
    IN  SubSeq(path, i + Len(LitDeployments),
               GroupEnd(path, i + Len(LitDeployments)) - 1)

\* request.headers.get("api-key"): absent, empty, or a key
ApiKeys == {None, Str(<<>>), Str(<<"k">>)}

\* The JSON bodies a client posts (a body that does not parse becomes {}).
AzureBodies ==
    {EmptyDict,
     Dict([stream |-> Bool(FALSE), model |-> Str(<<"m">>)]),
     Dict([stream |-> Bool(TRUE)]),
     Dict([stream |-> Bool(TRUE),
           stream_options |-> Dict([include_usage |-> Bool(FALSE)])]),
     Dict([stream |-> Num(1),
           stream_options |-> Dict([include_usage |-> Bool(FALSE),
                                    extra |-> Num(1)])]),
     Dict([stream |-> Bool(TRUE), stream_options |-> None]),
     Dict([stream |-> Bool(TRUE), stream_options |-> Str(<<"x">>)])}

\* azure.py:65-69
ForceStreamOptions(b) ==
    IF Truthy(Get(b, "stream", Bool(FALSE))) THEN
        IF ~Has(b, "stream_options")
        THEN Put(b, "stream_options", Dict([include_usage |-> Bool(TRUE)]))
        ELSE IF IsDict(b.items["stream_options"])
        THEN Put(b, "stream_options",
                 Put(b.items["stream_options"], "include_usage", Bool(TRUE)))
        ELSE b
    ELSE b

\* azure.py:74-75
SetModel(b, id) == IF Has(b, "model") THEN b ELSE Put(b, "model", Str(id))

\* ================================================ request handlers, steps
taskVars == <<task_pc, task_now, task_ret, task_via>>
clockVars == <<ROLE_ARN, now, ticks>>

Responded(kind, status) ==
    /\ resp' = [kind |-> kind, status |-> status]
    /\ rpc' = "responded"

\* ------------------------------------------------------------ azure.py
\* (variant: the api-key header is not checked)
AzureCheck_NoKeyCheck(path, api_key) == IF ~PathMatches(path) THEN 400 ELSE 0

\* azure.py:23-36: the status the two checks reject the request with, 0 when
\* they let it through.
AzureCheck(path, api_key) ==
    IF ~PathMatches(path) THEN 400
    ELSE IF ~Truthy(api_key) THEN 401
    ELSE 0

\* azure_proxy, lines 16-77: the path and api-key checks, the body with its
\* stream_options and model, and the await of
\* client.chat.completions.create(**body).
azure_proxy(path, api_key, b) ==
    /\ rpc = "idle"
    /\ route' = "azure"
    /\ IF AzureCheck(path, api_key) # 0 THEN
           /\ Responded("http_error", AzureCheck(path, api_key))
           /\ UNCHANGED <<body, upstream>>
       ELSE
           /\ body' = SetModel(ForceStreamOptions(b), deployment_id(path))
           /\ upstream' = "pending"
           /\ rpc' = "az_create"
           /\ UNCHANGED resp
    /\ UNCHANGED <<operation, method_name, is_stream, kwargs, method>>
    /\ UNCHANGED <<credVars, genVars>>

\* azure_proxy, lines 77-106: create() returned.
azure_create_ok ==
    /\ rpc = "az_create"
    /\ upstream' = "ok"
    /\ IF Truthy(Get(body, "stream", Bool(FALSE))) THEN
           /\ resp' = [kind |-> "stream", status |-> 200]
           /\ rpc' = "az_iter"
       ELSE Responded("json", 200)
    /\ UNCHANGED <<route, operation, method_name, is_stream, body, kwargs, method>>
    /\ UNCHANGED <<credVars, genVars>>

\* azure_proxy, lines 108-111: create() raised APIError; status_code 0
\* stands for an error that carries none (`e.status_code or 500`).
azure_create_api_error(status_code) ==
    /\ rpc = "az_create"
    /\ upstream' = "failed"
    /\ Responded("json", IF status_code # 0 THEN status_code ELSE 500)
    /\ UNCHANGED <<route, operation, method_name, is_stream, body, kwargs, method>>
    /\ UNCHANGED <<credVars, genVars>>

\* azure_proxy, lines 112-114: create() raised another exception.
azure_create_exception ==
    /\ rpc = "az_create"
    /\ upstream' = "failed"
    /\ Responded("http_error", 500)
    /\ UNCHANGED <<route, operation, method_name, is_stream, body, kwargs, method>>
    /\ UNCHANGED <<credVars, genVars>>

\* stream_response_generator, lines 123-128: the iterator delivers a chunk,
\* which is yielded as an SSE data line.
stream_response_generator_next(chunk) ==
    /\ rpc = "az_iter"
    /\ Len(seen) < MaxEvents
    /\ seen' = Append(seen, chunk)
    /\ event' = chunk
    /\ out' = Append(out, SseData(chunk))
    /\ rpc' = "az_yield_chunk"
    /\ UNCHANGED <<client_open, iter_error, input_tokens, output_tokens,
                   output_text, log>>
    /\ UNCHANGED <<route, operation, method_name, is_stream, body, kwargs, method,
                   resp, upstream, credVars>>

\* stream_response_generator, lines 130-142: resumed after the yield.
stream_response_generator_resume ==
    /\ rpc = "az_yield_chunk"
    /\ LET usage == Get(event, "usage", None) IN
       log' = IF usage # None /\ DOMAIN usage.items # {}
              THEN Append(log, [line |-> "Azure Stream Finished (Usage Reported)",
                                total |-> Get(usage, "total_tokens", Num(0)).n])
              ELSE log
    /\ output_text' = output_text \o ChoicesText(Get(event, "choices", <<>>), 1)
    /\ rpc' = "az_iter"
    /\ UNCHANGED <<client_open, seen, iter_error, out, event,
                   input_tokens, output_tokens>>
    /\ UNCHANGED <<route, operation, method_name, is_stream, body, kwargs, method,
                   resp, upstream, credVars>>

\* stream_response_generator, line 144: the iterator is exhausted.
stream_response_generator_done ==
    /\ rpc = "az_iter"
    /\ out' = Append(out, SseDone)
    /\ rpc' = "az_yield_done"
    /\ UNCHANGED <<client_open, seen, iter_error, event,
                   input_tokens, output_tokens, output_text, log>>
    /\ UNCHANGED <<route, operation, method_name, is_stream, body, kwargs, method,
                   resp, upstream, credVars>>

\* stream_response_generator, line 146: resumed after the [DONE] line.
stream_response_generator_finish ==
    /\ rpc = "az_yield_done"
    /\ log' = Append(log, [line |-> "Azure Stream Output", text |-> output_text])
    /\ rpc' = "closed"
    /\ UNCHANGED <<client_open, seen, iter_error, out, event,
                   input_tokens, output_tokens, output_text>>
    /\ UNCHANGED <<route, operation, method_name, is_stream, body, kwargs, method,
                   resp, upstream, credVars>>

\* stream_response_generator, line 123: the iterator raises.  The generator
\* has no try: the exception leaves it and ends the response.
stream_response_generator_raise(message) ==
    /\ rpc = "az_iter"
    /\ iter_error' = Msg(message)
    /\ rpc' = "aborted"
    /\ UNCHANGED <<client_open, seen, out, event,
                   input_tokens, output_tokens, output_text, log>>
    /\ UNCHANGED <<route, operation, method_name, is_stream, body, kwargs, method,
                   resp, upstream, credVars>>

\* ---------------------------------------------------------- bedrock.py
\* bedrock.py:244-247: the two log lines that end bedrock_stream_generator
FinalLogs(lg, tin, tout, text) ==
    (IF tin + tout > 0
     THEN Append(lg, [line |-> "Bedrock Stream Finished", input |-> tin, output |-> tout])
     ELSE lg)
    \o <<[line |-> "Bedrock Stream Output", text |-> text]>>

\* bedrock.py:240-242: an exception inside the try leaves the `async with`
\* (the client is closed), is logged, and an error line is yielded.
StreamingError(message) ==
    /\ client_open' = FALSE
    /\ log' = Append(log, [line |-> "Streaming Error", message |-> Msg(message)])
    /\ out' = Append(out, ErrorLine(message))
    /\ rpc' = "br_yield_error"

\* bedrock_runtime, lines 76-136, once get_credentials() has returned c:
\* a streaming operation returns the StreamingResponse at once; another
\* operation looks the method up and awaits it.  The HTTPException(404) of
\* line 98 is raised inside the try whose `except Exception` (line 134)
\* turns it into a 500.
runtime_dispatch(c, m, streaming) ==
    /\ kwargs' = c
    /\ IF streaming THEN
           /\ resp' = [kind |-> "stream", status |-> 200]
           /\ rpc' = "br_gen"
           /\ UNCHANGED <<method, upstream>>
       ELSE \E sdk \in SdkVersions :
           /\ method' = GetAttr(sdk, m)
           /\ IF GetAttr(sdk, m) = None THEN
                  Responded("http_error", 500) /\ UNCHANGED upstream
              ELSE
                  /\ upstream' = "pending"
                  /\ rpc' = "br_invoke"
                  /\ UNCHANGED resp

\* bedrock_runtime, lines 61-75 and on: the body, the method name, the
\* streaming test and the call of get_credentials(), up to its first await.
bedrock_runtime(op, b) ==
    /\ rpc = "idle"
    /\ route' = "runtime"
    /\ operation' = op
    /\ body' = b
    /\ method_name' = operation_to_method(op)
    /\ is_stream' = IsStreamMethod(operation_to_method(op))
    /\ LET d == Decide(ROLE_ARN, creds_cache, now) IN
       CASE d = "norole" ->
              /\ runtime_dispatch(None, operation_to_method(op),
                                  IsStreamMethod(operation_to_method(op)))
              /\ UNCHANGED sts_calls
         [] d = "cache" ->
              /\ runtime_dispatch(creds_cache.data, operation_to_method(op),
                                  IsStreamMethod(operation_to_method(op)))
              /\ UNCHANGED sts_calls
         [] d = "sts" ->
              /\ sts_calls < MaxSts
              /\ sts_calls' = sts_calls + 1
              /\ rpc' = "br_sts"
              /\ UNCHANGED <<kwargs, method, resp, upstream>>
    /\ UNCHANGED <<clockVars, creds_cache, taskVars, genVars>>

\* bedrock_runtime, line 75: get_credentials() stored and returned new
\* credentials (lines 54-58).
runtime_credentials_ok ==
    /\ rpc = "br_sts"
    /\ LET c == Credentials(0, now) IN
       /\ creds_cache' = StoreCreds(creds_cache, c)
       /\ runtime_dispatch(c, method_name, is_stream)
    /\ UNCHANGED <<route, operation, method_name, is_stream, body>>
    /\ UNCHANGED <<clockVars, sts_calls, taskVars, genVars>>

\* bedrock_runtime, line 75: get_credentials() raised; the call is outside
\* any try, so the handler ends with the exception (a 500 of the framework).
runtime_credentials_fail ==
    /\ rpc = "br_sts"
    /\ Responded("unhandled", 500)
    /\ UNCHANGED <<route, operation, method_name, is_stream, body, kwargs, method, upstream>>
    /\ UNCHANGED <<credVars, genVars>>

\* bedrock_runtime, lines 100-132: the awaited method returned.
runtime_invoke_ok ==
    /\ rpc = "br_invoke"
    /\ upstream' = "ok"
    /\ Responded("json", 200)
    /\ UNCHANGED <<route, operation, method_name, is_stream, body, kwargs, method>>
    /\ UNCHANGED <<credVars, genVars>>

\* bedrock_runtime, lines 134-136: the awaited method raised.
runtime_invoke_fail ==
    /\ rpc = "br_invoke"
    /\ upstream' = "failed"
    /\ Responded("http_error", 500)
    /\ UNCHANGED <<route, operation, method_name, is_stream, body, kwargs, method>>
    /\ UNCHANGED <<credVars, genVars>>

\* bedrock_agent_runtime, lines 155-163, once get_credentials() has returned:
\* the client is opened and the method looked up; the HTTPException(404) of
\* line 158 is raised outside the try of line 160.
agent_dispatch(c, m) ==
    /\ kwargs' = c
    /\ method' = GetAttr(AgentMethods, m)
    /\ IF GetAttr(AgentMethods, m) = None THEN
           Responded("http_error", 404) /\ UNCHANGED upstream
       ELSE
           /\ upstream' = "pending"
           /\ rpc' = "ag_invoke"
           /\ UNCHANGED resp

\* bedrock_agent_runtime, lines 139-146 and on: the body and the call of
\* get_credentials(), up to its first await.
bedrock_agent_runtime(op, b) ==
    /\ rpc = "idle"
    /\ route' = "agent"
    /\ operation' = op
    /\ body' = b
    /\ LET d == Decide(ROLE_ARN, creds_cache, now) IN
       CASE d = "norole" ->
              /\ agent_dispatch(None, operation_to_method(op))
              /\ UNCHANGED sts_calls
         [] d = "cache" ->
              /\ agent_dispatch(creds_cache.data, operation_to_method(op))
              /\ UNCHANGED sts_calls
         [] d = "sts" ->
              /\ sts_calls < MaxSts
              /\ sts_calls' = sts_calls + 1
              /\ rpc' = "ag_sts"
              /\ UNCHANGED <<kwargs, method, resp, upstream>>
    /\ UNCHANGED <<method_name, is_stream>>
    /\ UNCHANGED <<clockVars, creds_cache, taskVars, genVars>>

\* bedrock_agent_runtime, line 146: get_credentials() stored and returned
\* new credentials (lines 54-58).
agent_credentials_ok ==
    /\ rpc = "ag_sts"
    /\ LET c == Credentials(0, now) IN
       /\ creds_cache' = StoreCreds(creds_cache, c)
       /\ agent_dispatch(c, operation_to_method(operation))
    /\ UNCHANGED <<route, operation, method_name, is_stream, body>>
    /\ UNCHANGED <<clockVars, sts_calls, taskVars, genVars>>

\* bedrock_agent_runtime, line 146: get_credentials() raised, outside any
\* try (a 500 of the framework).
agent_credentials_fail ==
    /\ rpc = "ag_sts"
    /\ Responded("unhandled", 500)
    /\ UNCHANGED <<route, operation, method_name, is_stream, body, kwargs, method,
                   upstream>>
    /\ UNCHANGED <<credVars, genVars>>

\* bedrock_agent_runtime, lines 160-169: the awaited method returned.
agent_invoke_ok ==
    /\ rpc = "ag_invoke"
    /\ upstream' = "ok"
    /\ Responded("json", 200)
    /\ UNCHANGED <<route, operation, method_name, is_stream, body, kwargs, method>>
    /\ UNCHANGED <<credVars, genVars>>

\* bedrock_agent_runtime, lines 170-172: the awaited method raised.
agent_invoke_fail ==
    /\ rpc = "ag_invoke"
    /\ upstream' = "failed"
    /\ Responded("http_error", 500)
    /\ UNCHANGED <<route, operation, method_name, is_stream, body, kwargs, method>>
    /\ UNCHANGED <<credVars, genVars>>

\* bedrock_stream_generator, lines 193-204: the first pull of the response
\* body opens the client and looks the method up.
bedrock_stream_generator_start ==
    /\ rpc = "br_gen"
    /\ client_open' = TRUE
    /\ \E sdk \in SdkVersions :
          /\ method' = GetAttr(sdk, method_name)
          /\ IF GetAttr(sdk, method_name) = None THEN
                 /\ out' = Append(out, ErrorLine("Operation not found"))
                 /\ rpc' = "br_yield_notfound"
                 /\ UNCHANGED upstream
             ELSE
                 /\ upstream' = "pending"
                 /\ rpc' = "br_call"
                 /\ UNCHANGED out
    /\ UNCHANGED <<seen, iter_error, event, input_tokens, output_tokens,
                   output_text, log>>
    /\ UNCHANGED <<route, operation, method_name, is_stream, body, kwargs, resp>>
    /\ UNCHANGED credVars

\* bedrock_stream_generator, line 202: resumed after the "not found" line,
\* the generator returns from inside the try.
bedrock_stream_generator_return ==
    /\ rpc = "br_yield_notfound"
    /\ client_open' = FALSE
    /\ rpc' = "closed"
    /\ UNCHANGED <<seen, iter_error, out, event, input_tokens, output_tokens,
                   output_text, log>>
    /\ UNCHANGED <<route, operation, method_name, is_stream, body, kwargs, method,
                   resp, upstream, credVars>>

\* bedrock_stream_generator, lines 204-205: method(**body) returned.
bedrock_stream_generator_call_ok ==
    /\ rpc = "br_call"
    /\ upstream' = "ok"
    /\ rpc' = "br_iter"
    /\ UNCHANGED <<route, operation, method_name, is_stream, body, kwargs, method, resp>>
    /\ UNCHANGED <<credVars, genVars>>

\* bedrock_stream_generator, lines 204, 240-242: method(**body) raised.
bedrock_stream_generator_call_fail(message) ==
    /\ rpc = "br_call"
    /\ upstream' = "failed"
    /\ StreamingError(message)
    /\ UNCHANGED <<seen, iter_error, event, input_tokens, output_tokens, output_text>>
    /\ UNCHANGED <<route, operation, method_name, is_stream, body, kwargs, method, resp>>
    /\ UNCHANGED credVars

\* bedrock_stream_generator, lines 207-209: the stream delivers an event;
\* it is serialized and yielded, or serialize_event raises.
bedrock_stream_generator_next(ev) ==
    /\ rpc = "br_iter"
    /\ Len(seen) < MaxEvents
    /\ seen' = Append(seen, ev)
    /\ event' = ev
    /\ IF CanSerialize(ev) THEN
           /\ out' = Append(out, JsonLine(serialize_event(ev)))
           /\ rpc' = "br_yield_event"
           /\ UNCHANGED <<client_open, log>>
       ELSE StreamingError("codec can't decode")
    /\ UNCHANGED <<iter_error, input_tokens, output_tokens, output_text>>
    /\ UNCHANGED <<route, operation, method_name, is_stream, body, kwargs, method,
                   resp, upstream, credVars>>

\* bedrock_stream_generator, lines 214-217: resumed after the yield.
bedrock_stream_generator_resume ==
    /\ rpc = "br_yield_event"
    /\ LET u == UsageAfter(event, [input |-> input_tokens, output |-> output_tokens]) IN
       /\ input_tokens' = u.input
       /\ output_tokens' = u.output
    /\ rpc' = "br_iter"
    /\ UNCHANGED <<client_open, seen, iter_error, out, event, output_text, log>>
    /\ UNCHANGED <<route, operation, method_name, is_stream, body, kwargs, method,
                   resp, upstream, credVars>>

\* bedrock_stream_generator, lines 207, 224-247: the stream is exhausted.
\* The text of `event`, the last event of the loop, is accumulated (with no
\* event at all the name is unbound and line 224 raises); then the client is
\* closed and the final lines are logged.
bedrock_stream_generator_exhausted ==
    /\ rpc = "br_iter"
    /\ IF event = None THEN
           /\ StreamingError("local variable 'event' referenced before assignment")
           /\ UNCHANGED output_text
       ELSE
           /\ output_text' = TextAfter(event, output_text)
           /\ client_open' = FALSE
           /\ log' = FinalLogs(log, input_tokens, output_tokens,
                               TextAfter(event, output_text))
           /\ rpc' = "closed"
           /\ UNCHANGED out
    /\ UNCHANGED <<seen, iter_error, event, input_tokens, output_tokens>>
    /\ UNCHANGED <<route, operation, method_name, is_stream, body, kwargs, method,
                   resp, upstream, credVars>>

\* bedrock_stream_generator, lines 207, 240-242: the stream raises.
bedrock_stream_generator_raise(message) ==
    /\ rpc = "br_iter"
    /\ iter_error' = Msg(message)
    /\ StreamingError(message)
    /\ UNCHANGED <<seen, event, input_tokens, output_tokens, output_text>>
    /\ UNCHANGED <<route, operation, method_name, is_stream, body, kwargs, method,
                   resp, upstream, credVars>>

\* bedrock_stream_generator, lines 244-247: resumed after the error line.
bedrock_stream_generator_finish ==
    /\ rpc = "br_yield_error"
    /\ log' = FinalLogs(log, input_tokens, output_tokens, output_text)
    /\ rpc' = "closed"
    /\ UNCHANGED <<client_open, seen, iter_error, out, event,
                   input_tokens, output_tokens, output_text>>
    /\ UNCHANGED <<route, operation, method_name, is_stream, body, kwargs, method,
                   resp, upstream, credVars>>

\* The client disconnects while stream_response_generator is suspended at
\* a yield (lines 128, 144) or awaiting the iterator (line 123): the
\* generator is closed or cancelled there (GeneratorExit / CancelledError,
\* both BaseException).  It has no try/finally: nothing more runs.
stream_response_generator_cancel ==
    /\ rpc \in {"az_iter", "az_yield_chunk", "az_yield_done"}
    /\ rpc' = "cancelled"
    /\ UNCHANGED <<route, operation, method_name, is_stream, body, kwargs, method,
                   resp, upstream>>
    /\ UNCHANGED <<credVars, genVars>>

\* The client disconnects while bedrock_stream_generator is suspended at a
\* yield (lines 201, 209, 242) or awaiting the method or the stream (lines
\* 204, 207).  The exception leaves the `async with` of line 198 (the client
\* is closed); `except Exception` (line 240) does not catch a BaseException,
\* so lines 241-247 do not run.
bedrock_stream_generator_cancel ==
    /\ rpc \in {"br_call", "br_iter", "br_yield_event", "br_yield_error",
                "br_yield_notfound"}
    /\ client_open' = FALSE
    /\ rpc' = "cancelled"
    /\ UNCHANGED <<seen, iter_error, out, event, input_tokens, output_tokens,
                   output_text, log>>
    /\ UNCHANGED <<route, operation, method_name, is_stream, body, kwargs, method,
                   resp, upstream, credVars>>

\* ------------------------------------------------------------------ Init
CredInit ==
    /\ ROLE_ARN \in BOOLEAN
    /\ now = 0
    /\ ticks = 0
    /\ creds_cache = [data |-> None, expiry |-> 0]
    /\ sts_calls = 0
    /\ task_pc = [t \in Tasks |-> "idle"]
    /\ task_now = [t \in Tasks |-> 0]
    /\ task_ret = [t \in Tasks |-> None]
    /\ task_via = [t \in Tasks |-> "none"]

PumpInit ==
    /\ rpc = "idle"
    /\ route = "none"
    /\ operation = <<>>
    /\ method_name = <<>>
    /\ is_stream = FALSE
    /\ body = None
    /\ kwargs = None
    /\ method = Unset
    /\ resp = [kind |-> "none", status |-> 0]
    /\ upstream = "none"
    /\ client_open = FALSE
    /\ seen = <<>>
    /\ iter_error = None
    /\ out = <<>>
    /\ event = None
    /\ input_tokens = 0
    /\ output_tokens = 0
    /\ output_text = <<>>
    /\ log = <<>>

Init == CredInit /\ PumpInit

\* Concurrent callers of get_credentials() and the clock.
NextCred ==
    \/ \E t \in Tasks : get_credentials(t)
    \/ \E t \in Tasks : assume_role_ok(t)
    \/ \E t \in Tasks : assume_role_fail(t)
    \/ Tick

\* The status codes an APIError carries (0: none).
ApiErrorStatus == {0, 401, 429}

\* One client request, through its handler and its stream generator.
NextPump ==
    \/ \E path \in AzurePaths, k \in ApiKeys, b \in AzureBodies :
          azure_proxy(path, k, b)
    \/ azure_create_ok
    \/ \E sc \in ApiErrorStatus : azure_create_api_error(sc)
    \/ azure_create_exception
    \/ \E c \in AzureChunks : stream_response_generator_next(c)
    \/ stream_response_generator_resume
    \/ stream_response_generator_done
    \/ stream_response_generator_finish
    \/ stream_response_generator_raise("connection reset")
    \/ stream_response_generator_cancel
    \/ \E op \in Operations, b \in BedrockBodies : bedrock_runtime(op, b)
    \/ \E op \in AgentOperations, b \in BedrockBodies : bedrock_agent_runtime(op, b)
    \/ agent_credentials_ok
    \/ agent_credentials_fail
    \/ agent_invoke_ok
    \/ agent_invoke_fail
    \/ runtime_credentials_ok
    \/ runtime_credentials_fail
    \/ runtime_invoke_ok
    \/ runtime_invoke_fail
    \/ bedrock_stream_generator_start
    \/ bedrock_stream_generator_return
    \/ bedrock_stream_generator_call_ok
    \/ bedrock_stream_generator_call_fail("access denied")
    \/ \E ev \in StreamEvents(method_name) : bedrock_stream_generator_next(ev)
    \/ bedrock_stream_generator_resume
    \/ bedrock_stream_generator_exhausted
    \/ bedrock_stream_generator_raise("connection reset")
    \/ bedrock_stream_generator_finish
    \/ bedrock_stream_generator_cancel

Next == NextCred \/ NextPump

Spec == Init /\ [][Next]_vars

SpecCred == Init /\ [][NextCred]_vars

SpecPump == Init /\ [][NextPump]_vars

\* ================================================================ claims
\* ---------------------------------------------------------------- C1
\* C1: concurrent get_credentials() calls that find no valid entry make one
\* role-assumption call between them: never are two tasks awaiting
\* sts.assume_role at the same time.
C1_SingleFlight == Cardinality({t \in Tasks : task_pc[t] = "sts"}) <= 1

\* ------------------------------------------------- stream observations
\* A streamed response has ended: its generator returned or raised.
StreamEnded == resp.kind = "stream" /\ rpc \in {"closed", "aborted"}

\* The chunks of `out` that forward an upstream event (neither an error
\* line nor the [DONE] line).
DataChunks == SelectSeq(out, LAMBDA c : c # SseDone /\ ~IsErrorChunk(c))

\* The chunk that forwards upstream event e on the route of the request.
Forwarded(e) == IF route = "azure" THEN SseData(e) ELSE JsonLine(serialize_event(e))

ErrorChunkCount == Cardinality({i \in DOMAIN out : IsErrorChunk(out[i])})

\* How many times the final "Stream Output" line was logged.
FinalLogCount ==
    Cardinality({i \in DOMAIN log :
        log[i].line \in {"Azure Stream Output", "Bedrock Stream Output"}})

\* ---------------------------------------------------------------- C2
\* C2: a streamed response that has ended was ended by its generator
\* returning, never by an exception, and on the Azure route its last chunk
\* is the [DONE] line or an error chunk.
C2_StreamTerminated ==
    StreamEnded =>
        /\ rpc = "closed"
        /\ route = "azure" =>
              /\ out # <<>>
              /\ (out[Len(out)] = SseDone \/ IsErrorChunk(out[Len(out)]))

\* ---------------------------------------------------------------- C3
\* C3: at every moment of a streamed response the forwarded chunks are, in
\* order, exactly the chunks of the upstream events delivered so far.
C3_OneChunkPerEvent ==
    resp.kind = "stream" =>
        /\ Len(DataChunks) = Len(seen)
        /\ \A i \in 1..Len(seen) : DataChunks[i] = Forwarded(seen[i])

\* ---------------------------------------------------------------- C4
\* C4: the final usage/text line is never logged twice, and when a streamed
\* response has ended it has been logged exactly once.
C4_FinalLogOnce ==
    /\ FinalLogCount <= 1
    /\ StreamEnded => FinalLogCount = 1

\* ---------------------------------------------------------------- C5
\* C5: once the upstream iterator has raised, the exception has not left
\* the generator, and the output holds exactly one error chunk, carrying the
\* message, as its last chunk.
C5_IteratorErrorHandled ==
    iter_error # None =>
        /\ rpc # "aborted"
        /\ ErrorChunkCount = 1
        /\ out[Len(out)] = ErrorLine(iter_error.m)

\* ---------------------------------------------------------------- C6
\* C6: a call that finds a cached entry expiring 200 s from now issues a
\* refresh call and does not return; a call that finds an entry expiring
\* 400 s from now returns that entry and issues no refresh call.
C6_SafetyMargin ==
    [][\A t \in Tasks :
        (get_credentials(t) /\ ROLE_ARN /\ creds_cache.data # None) =>
          /\ (creds_cache.data.Expiration = now + 200) =>
                (task_pc'[t] = "sts" /\ sts_calls' = sts_calls + 1)
          /\ (creds_cache.data.Expiration = now + 400) =>
                (/\ task_pc'[t] = "done"
                 /\ task_ret'[t] = creds_cache.data
                 /\ sts_calls' = sts_calls)]_vars

\* One task was served an entry 400 s before its expiration and another is
\* refreshing an entry it found 200 s before its expiration.
C6_Witness ==
    \E t1, t2 \in Tasks :
        /\ task_pc[t1] = "done" /\ task_via[t1] = "cache"
        /\ task_ret[t1].Expiration = task_now[t1] + 400
        /\ task_pc[t2] = "sts"
        /\ creds_cache.data # None
        /\ creds_cache.data.Expiration = task_now[t2] + 200

\* ---------------------------------------------------------------- C7
\* C7: a successful refresh stores the returned credentials with expiry =
\* Expiration - 300; a call returns the cached entry, with no network call,
\* exactly when an entry exists and now < the stored expiry; no entry is
\* served at a time within 300 s of its Expiration.
C7_StoredExpiryDecides ==
    /\ [][\A t \in Tasks :
            (task_pc[t] = "sts" /\ task_via'[t] = "refresh" /\ task_pc'[t] = "done") =>
               /\ creds_cache'.data = task_ret'[t]
               /\ creds_cache'.expiry = task_ret'[t].Expiration - 300]_vars
    /\ [][\A t \in Tasks :
            (get_credentials(t) /\ ROLE_ARN) =>
               ((/\ task_pc'[t] = "done" /\ task_via'[t] = "cache"
                 /\ task_ret'[t] = creds_cache.data /\ sts_calls' = sts_calls)
                <=> (creds_cache.data # None /\ now < creds_cache.expiry))]_vars
    /\ [](\A t \in Tasks :
            (task_pc[t] = "done" /\ task_via[t] = "cache") =>
               task_now[t] < task_ret[t].Expiration - 300)

\* One task was served the entry at the last instant before the margin
\* (100 s before the stored expiry) and another, calling exactly at the
\* stored expiry, is awaiting a refresh.
C7_Witness ==
    \E t1, t2 \in Tasks :
        /\ task_pc[t1] = "done" /\ task_via[t1] = "cache"
        /\ task_ret[t1] = creds_cache.data
        /\ task_now[t1] = creds_cache.expiry - 100
        /\ task_pc[t2] = "sts"
        /\ task_now[t2] = creds_cache.expiry

\* ---------------------------------------------------------------- C8
\* C8: when the role-assumption call fails the caller gets the error and
\* the cache is exactly as before; a call that finds a stale entry (now at
\* or past its stored expiry) never returns it and issues a refresh call.
C8_FailureLeavesCache ==
    /\ [][\A t \in Tasks :
            (task_pc[t] = "sts" /\ task_pc'[t] = "done" /\ task_via'[t] # "refresh") =>
               /\ creds_cache' = creds_cache
               /\ task_via'[t] = "error"
               /\ task_ret'[t] = None]_vars
    /\ [][\A t \in Tasks :
            (/\ get_credentials(t) /\ ROLE_ARN /\ creds_cache.data # None
             /\ now >= creds_cache.data.Expiration - 300) =>
               (task_pc'[t] = "sts" /\ sts_calls' = sts_calls + 1
                /\ task_ret'[t] = task_ret[t])]_vars

\* A task whose refresh of a stale entry failed (the entry, issued before
\* that call, is still cached) while another task, calling later, is
\* retrying the refresh instead of being served the stale entry.
C8_Witness ==
    \E t1, t2 \in Tasks :
        /\ task_pc[t1] = "done" /\ task_via[t1] = "error"
        /\ creds_cache.data # None
        /\ creds_cache.data.Expiration - DurationSeconds < task_now[t1]
        /\ task_now[t1] >= creds_cache.expiry
        /\ task_pc[t2] = "sts"
        /\ task_now[t2] > task_now[t1]

\* ---------------------------------------------------------------- C9
\* C9: with no role ARN configured every call returns None at once, no
\* role-assumption call is ever issued and the cache is never written.
C9_NoRoleNoCall ==
    ~ROLE_ARN =>
        /\ sts_calls = 0
        /\ creds_cache = [data |-> None, expiry |-> 0]
        /\ \A t \in Tasks :
              /\ task_pc[t] \in {"idle", "done"}
              /\ task_pc[t] = "done" => (task_ret[t] = None /\ task_via[t] = "norole")

\* Without a role, every task has called and got None, at a later time.
C9_Witness ==
    /\ ~ROLE_ARN
    /\ now > 0
    /\ \A t \in Tasks : task_pc[t] = "done" /\ task_via[t] = "norole"

\* ---------------------------------------------------------------- C10
\* C10: a streamed response is started only when the upstream call has
\* succeeded, and a failed upstream call is answered by a single document
\* with a non-success status.
C10_EstablishErrorsMapped ==
    /\ resp.kind = "stream" => upstream = "ok"
    /\ upstream = "failed" =>
          (resp.kind \in {"json", "http_error"} /\ resp.status >= 400)

\* ---------------------------------------------------------------- C11
\* C11: when the lookup of the method finds none, the upstream operation is
\* never invoked and the request is answered "not found": a 404 response
\* on the non-streaming routes, the "not found" error line as the only
\* chunk on the streaming route.
C11_UnknownOperation404 ==
    method = None =>
        /\ upstream = "none"
        /\ seen = <<>>
        /\ IF resp.kind = "stream"
           THEN out = <<ErrorLine("Operation not found")>>
           ELSE resp = [kind |-> "http_error", status |-> 404]

\* ---------------------------------------------------------------- C12
\* An event that carries a metadata.usage object.
HasUsage(e) == Has(e, "metadata") /\ IsDict(e.items["metadata"])
                  /\ Has(e.items["metadata"], "usage")

\* C12: once every delivered event has been processed, the token counts are
\* those of the last usage-bearing event (when no other metadata event came
\* after it), whatever the counts of earlier usage events were; these are
\* the counts of the final log line.
C12_LastUsageWins ==
    (route = "runtime" /\ rpc \in {"br_iter", "closed"}) =>
        /\ \A i \in DOMAIN seen :
              (/\ HasUsage(seen[i])
               /\ \A j \in (i + 1)..Len(seen) : ~Has(seen[j], "metadata")) =>
                 LET usage == seen[i].items["metadata"].items["usage"] IN
                 /\ input_tokens = usage.items["inputTokens"].n
                 /\ output_tokens = usage.items["outputTokens"].n
        /\ (rpc = "closed" /\ input_tokens + output_tokens > 0) =>
              \E k \in DOMAIN log :
                  log[k] = [line |-> "Bedrock Stream Finished",
                            input |-> input_tokens, output |-> output_tokens]

\* A stream of two usage events, the second with the lower counts, has
\* ended with the counts of the second.
C12_Witness ==
    /\ rpc = "closed"
    /\ seen = <<EvUsage(2, 1), EvUsage(1, 0)>>
    /\ input_tokens = 1 /\ output_tokens = 0
    /\ \E k \in DOMAIN log :
          log[k] = [line |-> "Bedrock Stream Finished", input |-> 1, output |-> 0]

\* ---------------------------------------------------------------- C13
\* The text fragment event e contributes on the route of the request.
Fragment(e) ==
    IF route = "azure" THEN ChoicesText(Get(e, "choices", <<>>), 1)
    ELSE TextAfter(e, <<>>)

\* The fragments of events[i..], concatenated in order.
RECURSIVE Fragments(_, _)
Fragments(events, i) ==
    IF i > Len(events) THEN <<>>
    ELSE Fragment(events[i]) \o Fragments(events, i + 1)

\* C13: when a stream generator has returned, the assembled text is the
\* concatenation, in arrival order, of the fragments of all the events the
\* upstream delivered.
C13_TextIsConcatenation ==
    (resp.kind = "stream" /\ rpc = "closed") => output_text = Fragments(seen, 1)

\* ---------------------------------------------------------------- C14
\* C14: whenever the body passed to the upstream Azure call asks for a
\* stream (the client's `stream` value is passed on as it came), its
\* stream_options is a mapping whose include_usage is true.
C14_IncludeUsageForced ==
    (route = "azure" /\ upstream # "none"
        /\ Truthy(Get(body, "stream", Bool(FALSE)))) =>
        /\ Has(body, "stream_options")
        /\ IsDict(body.items["stream_options"])
        /\ Get(body.items["stream_options"], "include_usage", None) = Bool(TRUE)

\* ---------------------------------------------------------------- C15
\* C15: after the client has disconnected mid-stream the generator's
\* upstream client is closed and the final usage/text line has been logged
\* once.
C15_CancelledStillLogs ==
    rpc = "cancelled" =>
        /\ ~client_open
        /\ FinalLogCount = 1

\* ---------------------------------------------------------------- C16
\* An event whose chunk.bytes payload does not decode or does not parse.
Anomalous(e) ==
    /\ Has(e, "chunk") /\ Has(e.items["chunk"], "bytes")
    /\ ~CanLoad(e.items["chunk"].items["bytes"])

\* C16: an event whose payload fails to decode or parse is forwarded like
\* any other (its chunk is no error chunk) and adds nothing to the text;
\* it never ends the stream with an error.
C16_AnomalyNeverAborts ==
    route = "runtime" =>
        \A i \in DOMAIN seen :
            Anomalous(seen[i]) =>
                /\ i <= Len(out)
                /\ ~IsErrorChunk(out[i])
                /\ TextAfter(seen[i], output_text) = output_text

\* ---------------------------------------------------------------- C17
\* C17: a request whose path holds no deployments/{id}/chat/completions is
\* answered 400 and a request with such a path and no api-key header is
\* answered 401; a request rejected with 400 or 401 has made no upstream
\* call and started no stream, and nothing follows the answer.
C17_AzureRejects ==
    /\ [][(rpc = "idle" /\ route' = "azure") =>
            \A path \in AzurePaths, k \in ApiKeys, b \in AzureBodies :
              azure_proxy(path, k, b) =>
                /\ path \in {PathEmptyId, PathNoChat, PathModels} =>
                      (resp' = [kind |-> "http_error", status |-> 400]
                       /\ rpc' = "responded" /\ upstream' = "none")
                /\ (path \in {PathChat, PathPrefixed} /\ k = None) =>
                      (resp' = [kind |-> "http_error", status |-> 401]
                       /\ rpc' = "responded" /\ upstream' = "none")]_vars
    /\ [][(route' = "azure" /\ resp'.kind = "http_error"
              /\ resp'.status \in {400, 401}) =>
             (/\ rpc' = "responded"
              /\ upstream' = "none" /\ seen' = <<>> /\ out' = <<>>)]_vars
    /\ [][~(route = "azure" /\ resp.kind = "http_error"
               /\ resp.status \in {400, 401})]_vars

\* A request with a chat-completions path and no key has been answered 401
\* without an upstream call.
C17_Witness ==
    /\ route = "azure"
    /\ rpc = "responded"
    /\ resp = [kind |-> "http_error", status |-> 401]
    /\ upstream = "none" /\ out = <<>>

\* ---------------------------------------------------------------- C18
\* The method name of each operation name, written out by the rule: "_"
\* before every uppercase letter but the first character, lowercase, then
\* "_" for every "-".
SnakeOf(op) ==
    CASE op = OpInvokeModel -> invoke_model
      [] op = OpInvokeModelWithResponseStream -> invoke_model_with_response_stream
      [] op = OpConverse -> converse
      [] op = OpConverseStream -> converse_stream
      [] op = OpKebabConverseStream -> converse_stream
      [] op = OpLowerCamel -> invoke_model
      [] op = OpHyphenUpper ->
          <<"c", "o", "n", "v", "e", "r", "s", "e", "_", "_", "s", "t",
            "r", "e", "a", "m">>
      [] op = OpUnknown ->
          <<"f", "o", "o", "_", "b", "a", "r">>

\* C18: on the runtime route the method name is the one the rule gives for
\* the operation name, and the request is handled as a stream exactly when
\* that name is invoke_model_with_response_stream or converse_stream,
\* whether or not the body holds a "stream" key.
C18_MethodAndStreaming ==
    route = "runtime" =>
        /\ method_name = SnakeOf(operation)
        /\ is_stream <=>
              method_name \in {invoke_model_with_response_stream, converse_stream}
        /\ resp.kind = "stream" => is_stream
        /\ (rpc = "br_invoke" \/ resp.kind \in {"json", "http_error"}) => ~is_stream

\* An InvokeModel request whose body holds "stream": true has been answered
\* with a single document.
C18_Witness ==
    /\ route = "runtime"
    /\ operation = OpInvokeModel
    /\ method_name = invoke_model
    /\ Truthy(Get(body, "stream", Bool(FALSE)))
    /\ resp = [kind |-> "json", status |-> 200]

\* ---------------------------------------------------------------- C19
\* C19: once every delivered event has been processed, the token counts are
\* those of the last event that carried a metadata.usage object: no later
\* event without usage (metadata or other) has changed them.
C19_NoUsageNoChange ==
    (route = "runtime" /\ rpc \in {"br_iter", "closed"}) =>
        \A i \in DOMAIN seen :
            (/\ HasUsage(seen[i])
             /\ \A j \in (i + 1)..Len(seen) : ~HasUsage(seen[j])) =>
               LET usage == seen[i].items["metadata"].items["usage"] IN
               /\ input_tokens = usage.items["inputTokens"].n
               /\ output_tokens = usage.items["outputTokens"].n

\* ---------------------------------------------------------------- C20
\* The one fragment of a parsed chunk document: outputText, else
\* completion, else delta.text, else nothing.
PriorityFragment(data) ==
    CASE Has(data, "outputText") -> data.items["outputText"].s
      [] ~Has(data, "outputText") /\ Has(data, "completion") ->
            data.items["completion"].s
      [] ~Has(data, "outputText") /\ ~Has(data, "completion")
            /\ Has(data, "delta") /\ Has(data.items["delta"], "text") ->
            data.items["delta"].items["text"].s
      [] OTHER -> <<>>

\* The text of events[i..] when each chunk that parses adds its one
\* fragment and contentBlockDelta.delta.text is added only for an event
\* without a chunk field.
RECURSIVE ExpectedText(_, _)
ExpectedText(events, i) ==
    IF i > Len(events) THEN <<>>
    ELSE LET e == events[i] IN
         (IF Has(e, "chunk") THEN
              (IF Has(e.items["chunk"], "bytes")
                    /\ CanLoad(e.items["chunk"].items["bytes"])
               THEN PriorityFragment(Loads(e.items["chunk"].items["bytes"]))
               ELSE <<>>)
          ELSE IF Has(e, "contentBlockDelta")
                    /\ Has(e.items["contentBlockDelta"], "delta")
                    /\ Has(e.items["contentBlockDelta"].items["delta"], "text")
          THEN e.items["contentBlockDelta"].items["delta"].items["text"].s
          ELSE <<>>)
         \o ExpectedText(events, i + 1)

\* C20: when a Bedrock stream has been read to its end without an error,
\* the text holds, for each chunk that parsed, exactly its one fragment by
\* the priority outputText, completion, delta.text, and a
\* contentBlockDelta text only for events without a chunk field.
C20_OneFragmentPerChunk ==
    (route = "runtime" /\ rpc = "closed" /\ upstream = "ok"
        /\ ErrorChunkCount = 0) =>
        output_text = ExpectedText(seen, 1)

\* ---------------------------------------------------------------- C21
\* C21: in every state, under any interleaving of calls, refresh answers
\* and refresh failures, the cache is empty with expiry 0 or holds the data
\* of one refresh answer together with that answer's Expiration minus 300 s;
\* an entry served from the cache was served before the expiry of its own
\* answer.
C21_DataExpirySameRefresh ==
    /\ IF creds_cache.data = None
       THEN creds_cache.expiry = 0
       ELSE creds_cache.expiry = creds_cache.data.Expiration - 300
    /\ \A t \in Tasks :
          (task_pc[t] = "done" /\ task_via[t] = "cache") =>
              (task_ret[t] # None /\ task_now[t] < task_ret[t].Expiration - 300)

\* Two overlapping refreshes were answered at different times; the cache
\* holds the later answer with its own expiry, not the earlier one's.
C21_Witness ==
    \E t1, t2 \in Tasks :
        /\ task_pc[t1] = "done" /\ task_via[t1] = "refresh"
        /\ task_pc[t2] = "done" /\ task_via[t2] = "refresh"
        /\ task_ret[t1].Expiration < task_ret[t2].Expiration
        /\ sts_calls = 2
        /\ creds_cache.data = task_ret[t2]
        /\ creds_cache.expiry = task_ret[t2].Expiration - 300
        /\ creds_cache.expiry # task_ret[t1].Expiration - 300

=============================================================================
